---- MODULE Spec2Model ----
(***************************************************************************)
(* Model of cachet_url_monitor/configuration.py: the Configuration object  *)
(* with its per-endpoint parallel arrays, its construction (__init__ and   *)
(* validate), the evaluate / if_trigger_update / push_status /             *)
(* push_metrics / push_incident handlers, and the Expectaction classes.    *)
(* Endpoints are indexed 1..num_urls (the code's 0..num_urls-1).           *)
(***************************************************************************)
EXTENDS Integers, Sequences, FiniteSets, TLC

\* ------------------------------------------------------------------------
\* Bounds of the model
\* ------------------------------------------------------------------------
MaxUrls == 2
MaxAllowedFails == 2
MaxExpectations == 2
MaxIncidentId == 1

\* ------------------------------------------------------------------------
\* Component statuses (status.py, imported as st)
\* ------------------------------------------------------------------------
COMPONENT_STATUS_OPERATIONAL == 1
COMPONENT_STATUS_PERFORMANCE_ISSUES == 2
COMPONENT_STATUS_PARTIAL_OUTAGE == 3
COMPONENT_STATUS_MAJOR_OUTAGE == 4

Statuses == COMPONENT_STATUS_OPERATIONAL .. COMPONENT_STATUS_MAJOR_OUTAGE

\* ------------------------------------------------------------------------
\* HTTP responses of the monitored endpoints
\* ------------------------------------------------------------------------
StatusCodes == {200, 503}
ElapsedSeconds == {1, 3}
Texts == {<<"O", "K">>, <<"K", "O">>}

Responses == [status_code : StatusCodes, elapsed : ElapsedSeconds, text : Texts]

\* The responses the endpoints give in the polling-cycle specifications: a
\* healthy and a failing one.
CycleResponses ==
    {r \in Responses : r.text = <<"O", "K">> /\ r.elapsed = 1}

\* requests[i] before the first successful request
NoRequest == [status_code |-> -1, elapsed |-> -1, text |-> <<>>]

\* int(time.time()) when a request returns; in the polling-cycle
\* specifications the clock does not advance.
Times == {1, 2}
CycleTimes == {1}

\* The bodies the version URLs return
VersionTexts == {<<"7">>, <<"7", "-", "-", ">", "x">>}

\* What requests.get of a version URL can do: raise, or return a response.
\* NoVersion stands for the fetch that is not made.
VersionExceptions == {"ConnectionError", "ReadTimeout"}

NoVersion == [raises |-> "none", status_code |-> -1, text |-> <<>>]

Versions ==
    {[raises |-> e, status_code |-> -1, text |-> <<>>] : e \in VersionExceptions} \cup
    {[raises |-> "none", status_code |-> c, text |-> x] :
        c \in StatusCodes, x \in VersionTexts}

\* r.text.split('-->')[0]: the text before the first occurrence of the marker
Marker == <<"-", "-", ">">>

MarkerAt(text, k) ==
    /\ k + Len(Marker) - 1 <= Len(text)
    /\ SubSeq(text, k, k + Len(Marker) - 1) = Marker

split_first(text) ==
    IF \E k \in 1 .. Len(text) : MarkerAt(text, k)
    THEN LET first == CHOOSE k \in 1 .. Len(text) :
                          /\ MarkerAt(text, k)
                          /\ \A l \in 1 .. (k - 1) : ~ MarkerAt(text, l)
         IN  SubSeq(text, 1, first - 1)
    ELSE text

Unknown == <<"U", "n", "k", "n", "o", "w", "n">>

\* ------------------------------------------------------------------------
\* Exceptions raised by requests.request and the except clauses of evaluate
\* ------------------------------------------------------------------------
Exceptions == {"ConnectionError", "ConnectTimeout", "ReadTimeout", "HTTPError"}

\* requests.exceptions: ConnectTimeout derives from both ConnectionError and
\* Timeout, ReadTimeout from Timeout only.
IsInstance(exc, cls) ==
    \/ exc = cls
    \/ exc = "ConnectTimeout" /\ cls \in {"ConnectionError", "Timeout"}
    \/ exc = "ReadTimeout" /\ cls = "Timeout"

\* The exceptions the requests raise in the polling-cycle specifications.
CycleExceptions == {"ConnectionError", "ReadTimeout"}

\* ------------------------------------------------------------------------
\* Expectations
\* ------------------------------------------------------------------------
\* Strings are sequences of characters.
Digits == <<"0", "1", "2", "3", "4", "5", "6", "7", "8", "9">>

\* '%d' % n for n >= 0
RECURSIVE ToDigits(_)
ToDigits(n) ==
    IF n < 10 THEN <<Digits[n + 1]>>
    ELSE Append(ToDigits(n \div 10), Digits[(n % 10) + 1])

\* The status_range strings of the configuration: 'v' and 'min-max'
RangeString(min, max) == ToDigits(min) \o <<"-">> \o ToDigits(max)

\* int(string) for a string of decimal digits
RECURSIVE int(_)
int(string) ==
    IF Len(string) = 0 THEN 0
    ELSE LET d == CHOOSE d \in 0 .. 9 : Digits[d + 1] = string[Len(string)]
         IN  10 * int(SubSeq(string, 1, Len(string) - 1)) + d

\* string.split(sep) for a separator of one character
RECURSIVE split(_, _)
split(string, sep) ==
    IF \E k \in 1 .. Len(string) : string[k] = sep
    THEN LET first == CHOOSE k \in 1 .. Len(string) :
                          /\ string[k] = sep
                          /\ \A l \in 1 .. (k - 1) : string[l] # sep
         IN  <<SubSeq(string, 1, first - 1)>> \o
             split(SubSeq(string, first + 1, Len(string)), sep)
    ELSE <<string>>

\* parse_range giving (v, v) for a single value.
parse_range_same_value(range_string) ==
    LET statuses == split(range_string, "-")
    IN  IF Len(statuses) = 1
        THEN <<int(statuses[1]), int(statuses[1])>>
        ELSE <<int(statuses[1]), int(statuses[2])>>

\* HttpStatus.parse_range
parse_range(range_string) ==
    LET statuses == split(range_string, "-")
    IN  IF Len(statuses) = 1
        THEN <<int(statuses[1]), int(statuses[1]) + 1>>
        ELSE <<int(statuses[1]), int(statuses[2])>>

\* HttpStatus(configuration) for a configuration with this status_range
HttpStatus(range_string) ==
    [type |-> "HTTP_STATUS", status_range |-> parse_range(range_string),
     threshold |-> 0, regex |-> <<>>]

HttpStatusExpectations == {HttpStatus(RangeString(200, 300))}
LatencyExpectations ==
    {[type |-> "LATENCY", status_range |-> <<0, 0>>, threshold |-> 2, regex |-> <<>>]}
RegexExpectations ==
    {[type |-> "REGEX", status_range |-> <<0, 0>>, threshold |-> 0, regex |-> <<"O">>]}

Expectations == HttpStatusExpectations \cup LatencyExpectations \cup RegexExpectations

\* re.match: the pattern must match at the beginning of the text.  Patterns
\* are literal character sequences.
RegexMatch(regex, text) ==
    /\ Len(regex) <= Len(text)
    /\ SubSeq(text, 1, Len(regex)) = regex

\* get_status with HttpStatus reporting a major outage for a status code
\* outside the range.
get_status_major_outage(expectation, response) ==
    CASE expectation.type = "HTTP_STATUS" ->
            IF /\ response.status_code >= expectation.status_range[1]
               /\ response.status_code < expectation.status_range[2]
            THEN COMPONENT_STATUS_OPERATIONAL
            ELSE COMPONENT_STATUS_MAJOR_OUTAGE
      [] expectation.type = "LATENCY" ->
            IF response.elapsed <= expectation.threshold
            THEN COMPONENT_STATUS_OPERATIONAL
            ELSE COMPONENT_STATUS_PERFORMANCE_ISSUES
      [] expectation.type = "REGEX" ->
            IF RegexMatch(expectation.regex, response.text)
            THEN COMPONENT_STATUS_OPERATIONAL
            ELSE COMPONENT_STATUS_PARTIAL_OUTAGE

\* HttpStatus.get_status, Latency.get_status and Regex.get_status
get_status(expectation, response) ==
    CASE expectation.type = "HTTP_STATUS" ->
            IF /\ response.status_code >= expectation.status_range[1]
               /\ response.status_code < expectation.status_range[2]
            THEN COMPONENT_STATUS_OPERATIONAL
            ELSE COMPONENT_STATUS_PARTIAL_OUTAGE
      [] expectation.type = "LATENCY" ->
            IF response.elapsed <= expectation.threshold
            THEN COMPONENT_STATUS_OPERATIONAL
            ELSE COMPONENT_STATUS_PERFORMANCE_ISSUES
      [] expectation.type = "REGEX" ->
            IF RegexMatch(expectation.regex, response.text)
            THEN COMPONENT_STATUS_OPERATIONAL
            ELSE COMPONENT_STATUS_PARTIAL_OUTAGE

get_message(expectation, response) ==
    CASE expectation.type = "HTTP_STATUS" ->
            "Unexpected HTTP status (" \o ToString(response.status_code) \o ")"
      [] expectation.type = "LATENCY" ->
            "Latency above threshold: " \o ToString(response.elapsed) \o " seconds"
      [] expectation.type = "REGEX" ->
            "Regex did not match anything in the body"

VARIABLES
    num_urls,            \* self.num_urls
    allowed_fails,       \* self.allowed_fails
    expectations,        \* self.expectations
    statuses,            \* self.statuses
    messages,            \* self.messages
    requests,            \* self.requests
    trigger_updates,     \* self.trigger_updates
    current_fails,       \* self.current_fails
    incident_ids,        \* self.incident_ids
    versions,            \* self.versions
    current_timestamps,  \* self.current_timestamps
    endpoint_version_urls, \* self.endpoint_version_urls: TRUE for a non-empty URL
    data,                \* self.data: the keys of the configuration file
    components,          \* the component statuses the status page reports to __init__
    component_ids,       \* self.component_ids
    array_component_ids, \* the component_ids the per-endpoint arrays were created for
    error,               \* the exception that escaped the last handler
    pc,                  \* the handler the polling cycle runs next
    outcomes,            \* what the primary request of each endpoint did in this cycle
    calls,               \* the status-page calls issued by the last push handler
    last_pushed_status,  \* history: the status of the last successful component PUT, 0 if none
    unhealthy_pushed     \* history: the last status put for the component was non-operational

vars == <<num_urls, allowed_fails, expectations, statuses, messages, requests,
          trigger_updates, current_fails, incident_ids, versions,
          current_timestamps, endpoint_version_urls, data, components,
          component_ids, array_component_ids, error,
          pc, outcomes, calls, last_pushed_status, unhealthy_pushed>>

history == <<last_pushed_status, unhealthy_pushed>>

config == <<num_urls, allowed_fails, expectations, endpoint_version_urls, data,
            components, component_ids, array_component_ids>>

NoError == [raises |-> "none", where |-> "none", keys |-> {}]

Urls == 1 .. num_urls

RECURSIVE SeqsUpTo(_, _)
SeqsUpTo(S, n) ==
    IF n = 0 THEN {<<>>}
    ELSE SeqsUpTo(S, n - 1) \cup
         {Append(s, x) : s \in {t \in SeqsUpTo(S, n - 1) : Len(t) = n - 1}, x \in S}

\* ------------------------------------------------------------------------
\* Configuration.__init__
\* ------------------------------------------------------------------------
\* The endpoint.expectation list of the polling-cycle specifications.
CycleExpectations ==
    {<<h, l>> : h \in HttpStatusExpectations, l \in LatencyExpectations}

\* The keys of the configuration file that __init__ and validate look up
configuration_mandatory_fields ==
    [endpoint |-> {"method", "timeout", "expectation"},
     cachet |-> {"api_url", "token"},
     frequency |-> {},
     update_urls_frequency |-> {}]

CachetKeys == configuration_mandatory_fields.cachet \cup {"metric_id", "public_incidents"}

\* A configuration file: the top-level keys it has, and the keys under
\* endpoint and cachet.
Datas ==
    {d \in [keys : SUBSET (DOMAIN configuration_mandatory_fields),
            endpoint : SUBSET configuration_mandatory_fields.endpoint,
            cachet : SUBSET CachetKeys] :
        /\ "endpoint" \notin d.keys => d.endpoint = {}
        /\ "cachet" \notin d.keys => d.cachet = {}}

\* The configuration file of the polling-cycle specifications
CycleData ==
    [keys |-> DOMAIN configuration_mandatory_fields,
     endpoint |-> configuration_mandatory_fields.endpoint,
     cachet |-> configuration_mandatory_fields.cachet \cup {"public_incidents"}]

\* The arrays as __init__ leaves them; statuses holds what the status page
\* reports for each component (get_current_status).
InitArrays ==
    /\ statuses \in [Urls -> Statuses]
    /\ versions = [i \in Urls |-> <<>>]
    /\ current_timestamps = [i \in Urls |-> -1]
    /\ components = <<>>
    /\ component_ids = [i \in Urls |-> i]
    /\ array_component_ids = component_ids
    /\ error = NoError
    /\ messages = [i \in Urls |-> ""]
    /\ requests = [i \in Urls |-> NoRequest]
    /\ trigger_updates = [i \in Urls |-> FALSE]
    /\ current_fails = [i \in Urls |-> 0]
    /\ incident_ids = [i \in Urls |-> -1]
    /\ pc = "evaluate"
    /\ outcomes = [i \in Urls |-> "unreached"]
    /\ calls = {}
    /\ last_pushed_status = [i \in Urls |-> 0]
    /\ unhealthy_pushed = [i \in Urls |-> FALSE]

Init ==
    /\ num_urls \in 1 .. MaxUrls
    /\ allowed_fails \in 0 .. MaxAllowedFails
    /\ expectations \in CycleExpectations
    /\ endpoint_version_urls = [i \in Urls |-> FALSE]
    /\ data = CycleData
    /\ InitArrays

\* ------------------------------------------------------------------------
\* Configuration.evaluate
\* ------------------------------------------------------------------------

\* fold_expectations replacing status and message when an expectation's
\* status is greater or equal.
RECURSIVE fold_expectations_or_equal(_, _, _, _)
fold_expectations_or_equal(exps, k, response, acc) ==
    IF k > Len(exps) THEN acc
    ELSE LET status == get_status(exps[k], response)
         IN  IF status >= acc.status
             THEN fold_expectations_or_equal(exps, k + 1, response,
                      [status |-> status, message |-> get_message(exps[k], response)])
             ELSE fold_expectations_or_equal(exps, k + 1, response, acc)

\* The loop over self.expectations: start from OPERATIONAL and "", replace
\* status and message when an expectation's status is strictly greater.
RECURSIVE fold_expectations(_, _, _, _)
fold_expectations(exps, k, response, acc) ==
    IF k > Len(exps) THEN acc
    ELSE LET status == get_status(exps[k], response)
         IN  IF status > acc.status
             THEN fold_expectations(exps, k + 1, response,
                      [status |-> status, message |-> get_message(exps[k], response)])
             ELSE fold_expectations(exps, k + 1, response, acc)

\* except_clause with a Timeout clause that sets the status only.
except_clause_no_message(exc) ==
    IF IsInstance(exc, "ConnectionError")
    THEN [status |-> COMPONENT_STATUS_PARTIAL_OUTAGE, message |-> "The URL is unreachable"]
    ELSE IF IsInstance(exc, "HTTPError")
    THEN [status |-> COMPONENT_STATUS_PARTIAL_OUTAGE, message |-> "Unexpected HTTP response"]
    ELSE [status |-> COMPONENT_STATUS_PERFORMANCE_ISSUES, message |-> ""]

\* The except clauses, tried in the order they are written.
except_clause(exc) ==
    IF IsInstance(exc, "ConnectionError")
    THEN [status |-> COMPONENT_STATUS_PARTIAL_OUTAGE, message |-> "The URL is unreachable"]
    ELSE IF IsInstance(exc, "HTTPError")
    THEN [status |-> COMPONENT_STATUS_PARTIAL_OUTAGE, message |-> "Unexpected HTTP response"]
    ELSE [status |-> COMPONENT_STATUS_PERFORMANCE_ISSUES, message |-> "Request timed out"]

\* What requests.request can do: raise one of the exceptions es, or return
\* one of the responses rs at one of the times ts, the version fetch that
\* follows doing one of vs.
Raising(es) ==
    {[raises |-> e, response |-> NoRequest, time |-> -1, version |-> NoVersion] :
        e \in es}

Returning(rs, ts, vs) ==
    {[raises |-> "none", response |-> r, time |-> t, version |-> v] :
        r \in rs, t \in ts, v \in vs}

\* What the iteration of evaluate for endpoint i can meet: the version is
\* fetched only when the endpoint has a version URL.
Outs(i, es, rs, ts, vs) ==
    Raising(es) \cup
    Returning(rs, ts, IF endpoint_version_urls[i] THEN vs ELSE {NoVersion})

\* The iteration ends evaluate: an except clause returns, or the exception of
\* the version fetch escapes.
Ends(out) == out.raises # "none" \/ out.version.raises # "none"

\* What evaluate meets for the endpoints i .. num_urls, in the order it
\* processes them: nothing follows an iteration that ends evaluate.
RECURSIVE RequestRuns(_, _, _, _, _)
RequestRuns(i, es, rs, ts, vs) ==
    IF i > num_urls THEN {<<>>}
    ELSE {<<o>> : o \in {o \in Outs(i, es, rs, ts, vs) : Ends(o)}} \cup
         {<<o>> \o t : o \in {o \in Outs(i, es, rs, ts, vs) : ~ Ends(o)},
                       t \in RequestRuns(i + 1, es, rs, ts, vs)}

\* GET of the version URL of endpoint i
VersionGet(i) ==
    [method |-> "GET", path |-> "/version", id |-> -1, component_id |-> i,
     status |-> -1]

\* evaluate_body with except clauses that do not return: the expectations
\* are evaluated on the response stored for the endpoint.
evaluate_body_no_return(i, s, out) ==
    LET response == IF out.raises # "none" THEN s.requests[i] ELSE out.response
        r == fold_expectations(expectations, 1, response,
                 [status |-> COMPONENT_STATUS_OPERATIONAL, message |-> ""])
        t == IF out.raises # "none" THEN s
             ELSE [s EXCEPT !.requests[i] = out.response,
                            !.current_timestamps[i] = out.time]
    IN  IF endpoint_version_urls[i] /\ out.version.raises # "none"
        THEN [t EXCEPT !.calls = @ \cup {VersionGet(i)},
                       !.outcomes[i] = "version fetch raised",
                       !.raised = out.version.raises]
        ELSE LET u == IF endpoint_version_urls[i]
                      THEN [t EXCEPT !.calls = @ \cup {VersionGet(i)},
                                     !.versions[i] =
                                         IF out.version.status_code = 200
                                         THEN split_first(out.version.text)
                                         ELSE Unknown]
                      ELSE t
             IN  [u EXCEPT !.statuses[i] = r.status,
                           !.messages[i] = r.message,
                           !.outcomes[i] = IF out.raises # "none" THEN out.raises
                                           ELSE "ok"]

\* One iteration of the loop of evaluate for endpoint i, out being what the
\* requests do.  returned is TRUE when the iteration executes the return
\* statement, raised names the exception that escapes it: an IndexError
\* when the per-endpoint arrays have no index i, from the assignment to
\* requests[i] or, when the request raises, to messages[i].
evaluate_body(i, s, out) ==
    IF i > Len(s.requests)
    THEN [s EXCEPT !.outcomes[i] = "index error", !.raised = "IndexError"]
    ELSE
    IF out.raises # "none"
    THEN LET r == except_clause(out.raises)
         IN  [s EXCEPT !.statuses[i] = r.status,
                       !.messages[i] = r.message,
                       !.outcomes[i] = out.raises,
                       !.returned = TRUE]
    ELSE LET t == [s EXCEPT !.requests[i] = out.response,
                            !.current_timestamps[i] = out.time]
         IN  IF endpoint_version_urls[i] /\ out.version.raises # "none"
             THEN [t EXCEPT !.calls = @ \cup {VersionGet(i)},
                            !.outcomes[i] = "version fetch raised",
                            !.raised = out.version.raises]
             ELSE LET r == fold_expectations(expectations, 1, out.response,
                               [status |-> COMPONENT_STATUS_OPERATIONAL, message |-> ""])
                      u == IF endpoint_version_urls[i]
                           THEN [t EXCEPT !.calls = @ \cup {VersionGet(i)},
                                          !.versions[i] =
                                              IF out.version.status_code = 200
                                              THEN split_first(out.version.text)
                                              ELSE Unknown]
                           ELSE t
                  IN  [u EXCEPT !.statuses[i] = r.status,
                                !.messages[i] = r.message,
                                !.outcomes[i] = "ok"]

\* for i in range(self.num_urls)
RECURSIVE evaluate_loop(_, _, _)
evaluate_loop(i, s, outs) ==
    IF i > num_urls THEN s
    ELSE LET r == evaluate_body(i, s, outs[i])
         IN  IF r.returned \/ r.raised # "none" THEN r
             ELSE evaluate_loop(i + 1, r, outs)

\* evaluate() with the requests raising from es or returning from rs, and
\* the version fetches doing vs; the call runs within one second, one of ts.
evaluate(es, rs, ts, vs) ==
    /\ pc = "evaluate"
    /\ \E t \in ts : \E outs \in RequestRuns(1, es, rs, {t}, vs) :
          \E r \in {evaluate_loop(1,
                       [statuses |-> statuses, messages |-> messages,
                        requests |-> requests, versions |-> versions,
                        current_timestamps |-> current_timestamps,
                        outcomes |-> [i \in Urls |-> "unreached"],
                        calls |-> {}, returned |-> FALSE, raised |-> "none"],
                       outs)} :
              /\ statuses' = r.statuses
              /\ messages' = r.messages
              /\ requests' = r.requests
              /\ versions' = r.versions
              /\ current_timestamps' = r.current_timestamps
              /\ outcomes' = r.outcomes
              /\ calls' = r.calls
              /\ error' = IF r.raised = "none" THEN NoError
                          ELSE [raises |-> r.raised, where |-> "evaluate", keys |-> {}]
    /\ UNCHANGED <<config, trigger_updates, current_fails, incident_ids, history>>

\* The polling cycle stops when an exception escapes a handler.
Evaluate ==
    /\ evaluate(CycleExceptions, CycleResponses, CycleTimes, Versions)
    /\ pc' = IF error'.raises = "none" THEN "if_trigger_update" ELSE "raised"

\* ------------------------------------------------------------------------
\* Configuration.if_trigger_update
\* ------------------------------------------------------------------------

\* The loop body without the reset of the counter at line 356 for an
\* endpoint that is not operational.
if_trigger_update_body_no_reset(i, s) ==
    LET fails == s.current_fails[i] + 1
    IN  IF statuses[i] # 1 /\ fails <= allowed_fails
        THEN [current_fails |-> [s.current_fails EXCEPT ![i] = fails],
              trigger_updates |-> [s.trigger_updates EXCEPT ![i] = FALSE],
              returned |-> TRUE]
        ELSE [current_fails |-> [s.current_fails EXCEPT ![i] =
                                     IF statuses[i] # 1 THEN fails ELSE 0],
              trigger_updates |-> [s.trigger_updates EXCEPT ![i] = TRUE],
              returned |-> FALSE]

\* One iteration of the loop for endpoint i.
if_trigger_update_body(i, s) ==
    LET fails == s.current_fails[i] + 1
    IN  IF statuses[i] # 1 /\ fails <= allowed_fails
        THEN [current_fails |-> [s.current_fails EXCEPT ![i] = fails],
              trigger_updates |-> [s.trigger_updates EXCEPT ![i] = FALSE],
              returned |-> TRUE]
        ELSE [current_fails |-> [s.current_fails EXCEPT ![i] = 0],
              trigger_updates |-> [s.trigger_updates EXCEPT ![i] = TRUE],
              returned |-> FALSE]

RECURSIVE if_trigger_update_loop(_, _)
if_trigger_update_loop(i, s) ==
    IF i > num_urls THEN s
    ELSE LET r == if_trigger_update_body(i, s)
         IN  IF r.returned THEN r ELSE if_trigger_update_loop(i + 1, r)

IfTriggerUpdate ==
    /\ pc = "if_trigger_update"
    /\ LET r == if_trigger_update_loop(1,
                    [current_fails |-> current_fails,
                     trigger_updates |-> trigger_updates,
                     returned |-> FALSE])
       IN  /\ current_fails' = r.current_fails
           /\ trigger_updates' = r.trigger_updates
    /\ pc' = "push_status"
    /\ outcomes' = [i \in Urls |-> "unreached"]
    /\ UNCHANGED <<config, statuses, messages, requests, incident_ids, calls,
                   versions, current_timestamps, error, history>>

\* ------------------------------------------------------------------------
\* Configuration.push_status
\* ------------------------------------------------------------------------

\* PUT {api_url}/components/{component id} for the component of endpoint i
ComponentPut(i) ==
    [method |-> "PUT", path |-> "/components", id |-> component_ids[i],
     component_id |-> component_ids[i],
     status |-> statuses[i]]

\* One iteration of the loop for endpoint i: the results it can have, one
\* for each value of component_request.ok; puts collects the components
\* whose PUT succeeded.
push_status_body(i, s) ==
    IF ~ trigger_updates[i]
    THEN {[calls |-> s.calls, puts |-> s.puts, returned |-> TRUE]}
    ELSE {[calls |-> s.calls \cup {ComponentPut(i)},
           puts |-> IF ok THEN s.puts \cup {i} ELSE s.puts,
           returned |-> FALSE] : ok \in BOOLEAN}

\* for i in range(self.num_urls): the results the loop can have from i on
RECURSIVE push_status_loop(_, _)
push_status_loop(i, s) ==
    IF i > num_urls THEN {s}
    ELSE UNION {IF r.returned THEN {r} ELSE push_status_loop(i + 1, r) :
                    r \in push_status_body(i, s)}

push_status ==
    push_status_loop(1, [calls |-> calls, puts |-> {}, returned |-> FALSE])

PushStatus ==
    /\ pc = "push_status"
    /\ \E r \in push_status : calls' = r.calls
    /\ pc' = "push_incident"
    /\ UNCHANGED <<config, statuses, messages, requests, trigger_updates,
                   current_fails, incident_ids, outcomes, versions,
                   current_timestamps, error, history>>

\* ------------------------------------------------------------------------
\* Configuration.push_incident
\* ------------------------------------------------------------------------

\* PUT {api_url}/incidents/{incident id} for the component of endpoint i
IncidentPut(i, id) ==
    [method |-> "PUT", path |-> "/incidents", id |-> id,
     component_id |-> component_ids[i],
     status |-> 4]

\* POST {api_url}/incidents for the component of endpoint i
IncidentPost(i) ==
    [method |-> "POST", path |-> "/incidents", id |-> -1,
     component_id |-> component_ids[i],
     status |-> 1]

\* The incident_ids a resolve call for endpoint i can leave: cleared when
\* incident_request.ok, unchanged otherwise.
Resolved(i, ids) == {[ids EXCEPT ![i] = -1], ids}

\* The incident_ids a create call for endpoint i can leave: the id of the
\* response when incident_request.ok, unchanged otherwise.
Created(i, ids) == {[ids EXCEPT ![i] = new_id] : new_id \in 1 .. MaxIncidentId} \cup {ids}

\* push_incident_body with the first condition testing the status only.
push_incident_body_status_only(i, s) ==
    IF ~ trigger_updates[i]
    THEN {[calls |-> s.calls, incident_ids |-> s.incident_ids, returned |-> TRUE]}
    ELSE IF statuses[i] = COMPONENT_STATUS_OPERATIONAL
    THEN {[calls |-> s.calls \cup {IncidentPut(i, s.incident_ids[i])},
           incident_ids |-> ids,
           returned |-> FALSE] : ids \in Resolved(i, s.incident_ids)}
    ELSE IF /\ s.incident_ids[i] # -1
            /\ statuses[i] # COMPONENT_STATUS_OPERATIONAL
    THEN {[calls |-> s.calls \cup {IncidentPost(i)},
           incident_ids |-> ids,
           returned |-> FALSE] : ids \in Created(i, s.incident_ids)}
    ELSE {[calls |-> s.calls, incident_ids |-> s.incident_ids, returned |-> FALSE]}

\* One iteration of the loop for endpoint i: the results it can have, one
\* for each response to the incident request it makes.
push_incident_body(i, s) ==
    IF ~ trigger_updates[i]
    THEN {[calls |-> s.calls, incident_ids |-> s.incident_ids, returned |-> TRUE]}
    ELSE IF /\ s.incident_ids[i] # -1
            /\ statuses[i] = COMPONENT_STATUS_OPERATIONAL
    THEN {[calls |-> s.calls \cup {IncidentPut(i, s.incident_ids[i])},
           incident_ids |-> ids,
           returned |-> FALSE] : ids \in Resolved(i, s.incident_ids)}
    ELSE IF /\ s.incident_ids[i] # -1
            /\ statuses[i] # COMPONENT_STATUS_OPERATIONAL
    THEN {[calls |-> s.calls \cup {IncidentPost(i)},
           incident_ids |-> ids,
           returned |-> FALSE] : ids \in Created(i, s.incident_ids)}
    ELSE {[calls |-> s.calls, incident_ids |-> s.incident_ids, returned |-> FALSE]}

\* for i in range(self.num_urls): the results the loop can have from i on
RECURSIVE push_incident_loop(_, _)
push_incident_loop(i, s) ==
    IF i > num_urls THEN {s}
    ELSE UNION {IF r.returned THEN {r} ELSE push_incident_loop(i + 1, r) :
                    r \in push_incident_body(i, s)}

push_incident ==
    /\ pc = "push_incident"
    /\ \E r \in push_incident_loop(1,
                    [calls |-> calls, incident_ids |-> incident_ids,
                     returned |-> FALSE]) :
          /\ calls' = r.calls
          /\ incident_ids' = r.incident_ids
    /\ pc' = "evaluate"
    /\ UNCHANGED <<config, statuses, messages, requests, trigger_updates,
                   current_fails, outcomes, versions, current_timestamps, error>>

PushIncident == push_incident /\ UNCHANGED history

\* ------------------------------------------------------------------------
\* The polling cycle: evaluate, if_trigger_update, push_status, push_incident
\* ------------------------------------------------------------------------
Next ==
    \/ Evaluate
    \/ IfTriggerUpdate
    \/ PushStatus
    \/ PushIncident

Spec == Init /\ [][Next]_vars

\* ------------------------------------------------------------------------
\* The polling cycle with the history of the component PUTs recorded
\* ------------------------------------------------------------------------
PushStatusH ==
    /\ pc = "push_status"
    /\ \E r \in push_status :
          /\ calls' = r.calls
          /\ last_pushed_status' =
                [i \in Urls |-> IF i \in r.puts THEN statuses[i]
                                ELSE last_pushed_status[i]]
    /\ pc' = "push_incident"
    /\ UNCHANGED <<config, statuses, messages, requests, trigger_updates,
                   current_fails, incident_ids, outcomes, versions,
                   current_timestamps, error, unhealthy_pushed>>

PushIncidentH ==
    /\ push_incident
    /\ unhealthy_pushed' =
          [i \in Urls |-> IF ComponentPut(i) \in calls
                          THEN statuses[i] # COMPONENT_STATUS_OPERATIONAL
                          ELSE unhealthy_pushed[i]]
    /\ UNCHANGED last_pushed_status

NextH ==
    \/ Evaluate
    \/ IfTriggerUpdate
    \/ PushStatusH
    \/ PushIncidentH

SpecH == Init /\ [][NextH]_vars

\* ------------------------------------------------------------------------
\* evaluate() alone, on one endpoint, over all expectation lists and responses
\* ------------------------------------------------------------------------
InitFold ==
    /\ num_urls = 1
    /\ allowed_fails = 0
    /\ expectations \in SeqsUpTo(Expectations, MaxExpectations)
    /\ endpoint_version_urls = [i \in Urls |-> FALSE]
    /\ data = CycleData
    /\ InitArrays

EvaluateFold ==
    /\ evaluate(Exceptions, Responses, CycleTimes, Versions)
    /\ pc' = "evaluate"

NextFold == EvaluateFold

SpecFold == InitFold /\ [][NextFold]_vars

\* ------------------------------------------------------------------------
\* Configuration.push_metrics
\* ------------------------------------------------------------------------

\* The attributes the methods of Configuration assign on self;
\* default_metric_value only when a metric id is configured.
Attributes ==
    {"logger", "config_file", "data", "headers", "endpoint_method",
     "endpoint_urls", "versions", "endpoint_version_urls", "endpoint_timeout",
     "allowed_fails", "api_url", "component_ids", "intuit_db", "cachet_db",
     "num_urls", "metric_id", "latency_unit", "public_incidents",
     "expectations", "current_timestamps", "messages", "statuses", "requests",
     "trigger_updates", "current_fails", "incident_ids"} \cup
    (IF "metric_id" \in data.cachet THEN {"default_metric_value"} ELSE {})

hasattr(name) == name \in Attributes

\* POST {api_url}/metrics/{metric id}/points
MetricPost ==
    [method |-> "POST", path |-> "/metrics", id |-> 1, component_id |-> -1,
     status |-> -1]

\* The calls push_metrics issues and the exception that escapes it: the
\* point is sent when the configuration has a metric id and self has an
\* attribute request; self.status, self.request and self.current_timestamp
\* are then read.
push_metrics ==
    IF "metric_id" \in data.cachet /\ hasattr("request")
    THEN IF hasattr("status") /\ hasattr("current_timestamp")
         THEN [calls |-> {MetricPost}, raised |-> "none"]
         ELSE [calls |-> {}, raised |-> "AttributeError"]
    ELSE [calls |-> {}, raised |-> "none"]

PushMetrics ==
    /\ pc = "push_metrics"
    /\ calls' = calls \cup push_metrics.calls
    /\ error' = IF push_metrics.raised = "none" THEN NoError
                ELSE [raises |-> push_metrics.raised, where |-> "push_metrics",
                      keys |-> {}]
    /\ pc' = IF push_metrics.raised = "none" THEN "evaluate" ELSE "raised"
    /\ UNCHANGED <<config, statuses, messages, requests, trigger_updates,
                   current_fails, incident_ids, outcomes, versions,
                   current_timestamps, history>>

\* ------------------------------------------------------------------------
\* evaluate() and push_metrics(), with version URLs and a metric id
\* ------------------------------------------------------------------------
MetricData == [CycleData EXCEPT !.cachet = @ \cup {"metric_id"}]

\* The endpoints answer 200 when they answer; a version fetch raises,
\* returns a version or returns an error status.
ProbeResponses == {r \in CycleResponses : r.status_code = 200}

ProbeVersions ==
    {v \in Versions : /\ v.raises # "ReadTimeout"
                      /\ v.status_code = 200 => v.text # <<"7">>
                      /\ v.status_code = 503 => v.text = <<"7">>}

InitProbe ==
    /\ num_urls \in 1 .. MaxUrls
    /\ allowed_fails = 0
    /\ expectations \in CycleExpectations
    /\ endpoint_version_urls \in {[i \in Urls |-> b] : b \in BOOLEAN}
    /\ data \in {CycleData, MetricData}
    /\ InitArrays

EvaluateProbe ==
    /\ evaluate(Exceptions, ProbeResponses, Times, ProbeVersions)
    /\ pc' = IF error'.raises = "none" THEN "push_metrics" ELSE "raised"

NextProbe ==
    \/ EvaluateProbe
    \/ PushMetrics

SpecProbe == InitProbe /\ [][NextProbe]_vars

\* ------------------------------------------------------------------------
\* evaluate() of one endpoint with one HTTP_STATUS expectation, over the
\* status_range strings and the status codes
\* ------------------------------------------------------------------------
SingleValues == {200, 404}

RangePairs == {<<200, 300>>, <<200, 201>>, <<404, 500>>, <<300, 200>>}

RangeStrings ==
    {ToDigits(v) : v \in SingleValues} \cup
    {RangeString(r[1], r[2]) : r \in RangePairs}

RangeCodes == (199 .. 301) \cup {404, 500}

RangeResponses ==
    {[status_code |-> c, elapsed |-> 1, text |-> <<"O", "K">>] : c \in RangeCodes}

InitRange ==
    /\ num_urls = 1
    /\ allowed_fails = 0
    /\ expectations \in {<<HttpStatus(string)>> : string \in RangeStrings}
    /\ endpoint_version_urls = [i \in Urls |-> FALSE]
    /\ data = CycleData
    /\ InitArrays

EvaluateRange ==
    /\ evaluate({}, RangeResponses, CycleTimes, Versions)
    /\ pc' = "evaluate"

NextRange == EvaluateRange

SpecRange == InitRange /\ [][NextRange]_vars

\* ------------------------------------------------------------------------
\* Configuration.__init__ and Configuration.validate
\* ------------------------------------------------------------------------

\* self.data[key] for a top-level key the file has
SubKeys(d, key) ==
    IF key = "endpoint" THEN d.endpoint
    ELSE IF key = "cachet" THEN d.cachet
    ELSE {}

\* validate(): the exception it raises and the keys the message names.
\* self.data[key] is looked up for every mandatory sub-key, also when the
\* key itself is missing.
validate(d) ==
    LET fields == configuration_mandatory_fields
        missing == {key \in DOMAIN fields : key \notin d.keys}
    IN  IF \E key \in missing : fields[key] # {}
        THEN [raises |-> "KeyError", where |-> "validate", keys |-> {}]
        ELSE LET configuration_errors ==
                     missing \cup
                     {key \o "." \o sub_key :
                          key \in {"endpoint"}, sub_key \in fields.endpoint \ d.endpoint} \cup
                     {key \o "." \o sub_key :
                          key \in {"cachet"}, sub_key \in fields.cachet \ d.cachet}
             IN  IF configuration_errors # {}
                 THEN [raises |-> "ConfigurationValidationError",
                       where |-> "validate", keys |-> configuration_errors]
                 ELSE NoError

\* print_out(): __repr__ deletes data['cachet']['token'] from a copy.
print_out(d) ==
    IF "cachet" \in d.keys /\ "token" \in d.cachet THEN NoError
    ELSE [raises |-> "KeyError", where |-> "print_out", keys |-> {}]

\* A component the status page does not have
NoComponent == 0

\* get_current_status for the component of endpoint i
get_current_status_operational(i) == COMPONENT_STATUS_OPERATIONAL

get_current_status(i) == components[i]

\* The first exception __init__ meets, metric_ok telling whether the status
\* page has the configured metric.
init_error(metric_ok) ==
    IF print_out(data).raises # "none" THEN print_out(data)
    ELSE IF validate(data).raises # "none" THEN validate(data)
    ELSE IF "metric_id" \in data.cachet /\ ~ metric_ok
    THEN [raises |-> "MetricNonexistentError",
          where |-> "get_default_metric_value", keys |-> {}]
    ELSE IF "public_incidents" \notin data.cachet
    THEN [raises |-> "KeyError", where |-> "__init__", keys |-> {}]
    ELSE IF \E i \in DOMAIN components : components[i] = NoComponent
    THEN [raises |-> "ComponentNonexistentError",
          where |-> "get_current_status", keys |-> {}]
    ELSE NoError

\* Before __init__: the configuration file and the components that
\* get_monitoring_urls will match, with the status the status page has for
\* each.
InitConstruct ==
    /\ num_urls = 0
    /\ allowed_fails = 0
    /\ expectations \in CycleExpectations
    /\ data \in Datas
    /\ components \in UNION {[1 .. n -> {NoComponent} \cup Statuses] : n \in 1 .. MaxUrls}
    /\ endpoint_version_urls = <<>>
    /\ component_ids = <<>>
    /\ array_component_ids = <<>>
    /\ statuses = <<>>
    /\ messages = <<>>
    /\ requests = <<>>
    /\ trigger_updates = <<>>
    /\ current_fails = <<>>
    /\ incident_ids = <<>>
    /\ versions = <<>>
    /\ current_timestamps = <<>>
    /\ error = NoError
    /\ pc = "__init__"
    /\ outcomes = <<>>
    /\ calls = {}
    /\ last_pushed_status = <<>>
    /\ unhealthy_pushed = <<>>

Construct ==
    /\ pc = "__init__"
    /\ \E metric_ok \in BOOLEAN :
          IF init_error(metric_ok).raises # "none"
          THEN /\ error' = init_error(metric_ok)
               /\ pc' = "raised"
               /\ UNCHANGED <<config, statuses, messages, requests,
                              trigger_updates, current_fails, incident_ids,
                              versions, current_timestamps, outcomes,
                              history>>
          ELSE LET n == Len(components)
               IN  /\ num_urls' = n
                   /\ endpoint_version_urls' \in [1 .. n -> BOOLEAN]
                   /\ component_ids' = [i \in 1 .. n |-> i]
                   /\ array_component_ids' = component_ids'
                   /\ current_timestamps' = [i \in 1 .. n |-> -1]
                   /\ messages' = [i \in 1 .. n |-> ""]
                   /\ statuses' = [i \in 1 .. n |-> get_current_status(i)]
                   /\ requests' = [i \in 1 .. n |-> NoRequest]
                   /\ trigger_updates' = [i \in 1 .. n |-> FALSE]
                   /\ current_fails' = [i \in 1 .. n |-> 0]
                   /\ incident_ids' = [i \in 1 .. n |-> -1]
                   /\ versions' = [i \in 1 .. n |-> <<>>]
                   /\ components' = <<>>
                   /\ error' = NoError
                   /\ pc' = "evaluate"
                   /\ outcomes' = [i \in 1 .. n |-> "unreached"]
                   /\ last_pushed_status' = [i \in 1 .. n |-> 0]
                   /\ unhealthy_pushed' = [i \in 1 .. n |-> FALSE]
                   /\ UNCHANGED <<allowed_fails, expectations, data>>
    /\ calls' = {}

NextConstruct == Construct

SpecConstruct == InitConstruct /\ [][NextConstruct]_vars

\* ------------------------------------------------------------------------
\* Configuration.get_monitoring_urls run again between polling cycles
\* ------------------------------------------------------------------------
\* The ids of the components of the status page
ComponentIds == 1 .. MaxUrls

\* The component ids that the matching loop can append, in the order of the
\* iteration over cachet_db: any components, each once.
Discoveries ==
    {ids \in SeqsUpTo(ComponentIds, MaxUrls) :
        \A k, l \in 1 .. Len(ids) : k # l => ids[k] # ids[l]}

\* Whether the services of the URL database have a version URL: none has.
DiscoveredVersionUrls == {FALSE}

\* get_monitoring_urls: an exception of one of its requests escapes before
\* anything is assigned; otherwise component_ids, endpoint_version_urls and
\* num_urls are rebuilt from the matches and no other array is touched.
get_monitoring_urls ==
    \/ /\ \E e \in CycleExceptions :
              error' = [raises |-> e, where |-> "get_monitoring_urls", keys |-> {}]
       /\ UNCHANGED <<component_ids, endpoint_version_urls, num_urls, outcomes>>
    \/ /\ \E ids \in Discoveries, has_version_url \in DiscoveredVersionUrls :
              /\ component_ids' = ids
              /\ endpoint_version_urls' = [i \in 1 .. Len(ids) |-> has_version_url]
              /\ num_urls' = Len(ids)
              /\ outcomes' = [i \in 1 .. Len(ids) |-> "unreached"]
       /\ UNCHANGED error

GetMonitoringUrls ==
    /\ pc = "evaluate"
    /\ get_monitoring_urls
    /\ pc' = IF error'.raises = "none" THEN "evaluate" ELSE "raised"
    /\ UNCHANGED <<allowed_fails, expectations, data, components,
                   array_component_ids, statuses, messages, requests,
                   trigger_updates, current_fails, incident_ids, versions,
                   current_timestamps, calls, history>>

InitDiscover ==
    /\ num_urls \in 1 .. MaxUrls
    /\ allowed_fails = 0
    /\ expectations \in CycleExpectations
    /\ endpoint_version_urls = [i \in Urls |-> FALSE]
    /\ data = CycleData
    /\ InitArrays

EvaluateDiscover ==
    /\ evaluate(CycleExceptions, CycleResponses, CycleTimes, {NoVersion})
    /\ pc' = IF error'.raises = "none" THEN "evaluate" ELSE "raised"

NextDiscover ==
    \/ GetMonitoringUrls
    \/ EvaluateDiscover

SpecDiscover == InitDiscover /\ [][NextDiscover]_vars

\* ========================================================================
\* Properties
\* ========================================================================

\* The incident calls among cs made for the component of endpoint i
IncidentCalls(cs, i) == {c \in cs : c.path = "/incidents" /\ c.component_id = i}

\* C1 (debounce threshold): when if_trigger_update runs, every endpoint
\* with an operational status gets push = true and a failure counter of 0;
\* every endpoint with a non-operational status whose counter is below
\* allowed_fails gets its counter incremented and push = false, and one
\* whose counter has reached allowed_fails gets push = true.
C1_DebounceThreshold ==
    [][pc = "if_trigger_update" =>
        \A i \in Urls :
            /\ statuses[i] = COMPONENT_STATUS_OPERATIONAL =>
                  trigger_updates'[i] /\ current_fails'[i] = 0
            /\ statuses[i] # COMPONENT_STATUS_OPERATIONAL /\ current_fails[i] < allowed_fails =>
                  ~ trigger_updates'[i] /\ current_fails'[i] = current_fails[i] + 1
            /\ statuses[i] # COMPONENT_STATUS_OPERATIONAL /\ current_fails[i] >= allowed_fails =>
                  trigger_updates'[i]]_vars

\* C2 (sustained outage keeps pushing): if_trigger_update resets a failure
\* counter to 0 only for an endpoint whose status is operational, and an
\* endpoint whose last pushed status was non-operational and whose status
\* is still non-operational gets push = true again.
C2_SustainedOutagePushes ==
    [][pc = "if_trigger_update" =>
        \A i \in Urls :
            /\ current_fails[i] > 0 /\ current_fails'[i] = 0 =>
                  statuses[i] = COMPONENT_STATUS_OPERATIONAL
            /\ unhealthy_pushed[i] /\ statuses[i] # COMPONENT_STATUS_OPERATIONAL =>
                  trigger_updates'[i]]_vars

\* C3 (incident OPEN): when push_incident runs for an endpoint with push
\* decided, no open incident and a non-operational status, it issues the
\* create-incident call for that component.
C3_IncidentOpened ==
    [][pc = "push_incident" =>
        \A i \in Urls :
            /\ trigger_updates[i]
            /\ incident_ids[i] = -1
            /\ statuses[i] # COMPONENT_STATUS_OPERATIONAL
            => IncidentPost(i) \in calls']_vars

\* C4 (incident CLOSE): when push_incident runs for an endpoint whose
\* operational status has just been pushed and whose previously pushed
\* status was non-operational (its incident is open), it issues the resolve
\* call for the endpoint's incident id and the endpoint has no open incident
\* afterwards.
C4_IncidentClosed ==
    [][pc = "push_incident" =>
        \A i \in Urls :
            /\ ComponentPut(i) \in calls
            /\ statuses[i] = COMPONENT_STATUS_OPERATIONAL
            /\ unhealthy_pushed[i]
            => /\ incident_ids[i] # -1
               /\ IncidentPut(i, incident_ids[i]) \in calls'
               /\ incident_ids'[i] = -1]_vars

C6_IncidentIffUnhealthy ==
    pc = "evaluate" =>
        \A i \in Urls :
            incident_ids[i] # -1 <=>
                last_pushed_status[i] \notin {0, COMPONENT_STATUS_OPERATIONAL}

\* C7 (fault isolation in evaluation): when evaluate has run, the request of
\* every endpoint has been made.
C7_EveryEndpointEvaluated ==
    pc = "if_trigger_update" => \A i \in Urls : outcomes[i] # "unreached"

\* C8 (independence of reconciliation): if_trigger_update gives every
\* endpoint the counter and push decision that its own status and counter
\* determine, and push_status puts the status of every endpoint whose push
\* is decided.
C8_EndpointsIndependent ==
    [][/\ pc = "if_trigger_update" =>
            \A j \in Urls :
                LET r == if_trigger_update_body(j,
                             [current_fails |-> current_fails,
                              trigger_updates |-> trigger_updates])
                IN  /\ current_fails'[j] = r.current_fails[j]
                    /\ trigger_updates'[j] = r.trigger_updates[j]
       /\ pc = "push_status" =>
            \A j \in Urls : trigger_updates[j] => ComponentPut(j) \in calls']_vars

\* The statuses of the expectations exps on a response, with OPERATIONAL.
ExpectationStatuses(exps, response) ==
    {COMPONENT_STATUS_OPERATIONAL} \cup
    {get_status(exps[k], response) : k \in 1 .. Len(exps)}

WorstStatus(exps, response) ==
    CHOOSE w \in ExpectationStatuses(exps, response) :
        \A t \in ExpectationStatuses(exps, response) : t <= w

FirstWorst(exps, response) ==
    CHOOSE k \in 1 .. Len(exps) :
        /\ get_status(exps[k], response) = WorstStatus(exps, response)
        /\ \A l \in 1 .. (k - 1) :
              get_status(exps[l], response) # WorstStatus(exps, response)

\* C9 (severity fold): for an endpoint whose request succeeded, the status
\* is the greatest of OPERATIONAL and the statuses of the expectations, and
\* the message is empty when that is OPERATIONAL and otherwise the message
\* of the first expectation with that status.
C9_SeverityFold ==
    \A i \in Urls :
        outcomes[i] = "ok" =>
            /\ statuses[i] = WorstStatus(expectations, requests[i])
            /\ messages[i] =
                  IF WorstStatus(expectations, requests[i]) = COMPONENT_STATUS_OPERATIONAL
                  THEN ""
                  ELSE get_message(expectations[FirstWorst(expectations, requests[i])],
                                   requests[i])

\* C9 witness: two expectations, the first operational and the second a
\* partial outage on the response; the endpoint has the partial outage and
\* the second expectation's message.
C9_Witness ==
    \E i \in Urls :
        /\ outcomes[i] = "ok"
        /\ Len(expectations) = 2
        /\ get_status(expectations[1], requests[i]) = COMPONENT_STATUS_OPERATIONAL
        /\ get_status(expectations[2], requests[i]) = COMPONENT_STATUS_PARTIAL_OUTAGE
        /\ statuses[i] = COMPONENT_STATUS_PARTIAL_OUTAGE
        /\ messages[i] = get_message(expectations[2], requests[i])

\* C10 (transport-fault mapping): a connection failure and an HTTP error
\* give PARTIAL_OUTAGE, and a timeout, while connecting or while reading,
\* gives PERFORMANCE_ISSUES.
C10_TransportFaultMapping ==
    \A i \in Urls :
        /\ outcomes[i] \in {"ConnectionError", "HTTPError"} =>
              statuses[i] = COMPONENT_STATUS_PARTIAL_OUTAGE
        /\ outcomes[i] \in {"ConnectTimeout", "ReadTimeout"} =>
              statuses[i] = COMPONENT_STATUS_PERFORMANCE_ISSUES

\* C11 (optimistic local state): when push_incident runs for an endpoint
\* with an OPEN decision (push decided, no incident, non-operational status)
\* the endpoint has an open incident afterwards, and with a CLOSE decision
\* (push decided, incident open, operational status) it has none afterwards,
\* whatever the status page answers.
C11_OptimisticIncidentState ==
    [][pc = "push_incident" =>
        \A i \in Urls :
            /\ trigger_updates[i] /\ incident_ids[i] = -1
                  /\ statuses[i] # COMPONENT_STATUS_OPERATIONAL =>
                     incident_ids'[i] # -1
            /\ trigger_updates[i] /\ incident_ids[i] # -1
                  /\ statuses[i] = COMPONENT_STATUS_OPERATIONAL =>
                     incident_ids'[i] = -1]_vars

\* C12 (version lookup is best-effort): no exception escapes evaluate, and
\* every endpoint whose version was fetched, whatever the fetch did, has
\* completed its evaluation with the status derived from the expectations.
C12_VersionLookupBestEffort ==
    /\ error.where # "evaluate"
    /\ \A i \in Urls :
          VersionGet(i) \in calls =>
              /\ outcomes[i] = "ok"
              /\ statuses[i] = WorstStatus(expectations, requests[i])

\* C13 (metric push): when push_metrics runs after the requests of the cycle
\* were made, it sends one metric point if a metric id is configured, and
\* nothing if none is.
C13_MetricPushed ==
    [][pc = "push_metrics" /\ (\E i \in Urls : outcomes[i] # "unreached") =>
        /\ "metric_id" \in data.cachet => MetricPost \in calls'
        /\ "metric_id" \notin data.cachet => MetricPost \notin calls']_vars

\* C14 (STATUS_RANGE semantics): an endpoint evaluated against the
\* expectation built from the range string 'min-max' is OPERATIONAL when
\* min <= code < max and in PARTIAL_OUTAGE otherwise; built from the single
\* value 'v' it is OPERATIONAL exactly for the code v; for '200-300' the
\* codes 200..299 are OPERATIONAL and 300, 404 and 500 are PARTIAL_OUTAGE.
C14_StatusRange ==
    \A i \in Urls :
        outcomes[i] = "ok" =>
            LET code == requests[i].status_code
                InRange(min, max) ==
                    IF min <= code /\ code < max
                    THEN statuses[i] = COMPONENT_STATUS_OPERATIONAL
                    ELSE statuses[i] = COMPONENT_STATUS_PARTIAL_OUTAGE
            IN  /\ \A r \in RangePairs :
                      expectations = <<HttpStatus(RangeString(r[1], r[2]))>> =>
                          InRange(r[1], r[2])
                /\ \A v \in SingleValues :
                      expectations = <<HttpStatus(ToDigits(v))>> =>
                          InRange(v, v + 1)
                /\ expectations = <<HttpStatus(<<"2", "0", "0", "-", "3", "0", "0">>)>> =>
                      /\ code \in 200 .. 299 =>
                            statuses[i] = COMPONENT_STATUS_OPERATIONAL
                      /\ code \in {300, 404, 500} =>
                            statuses[i] = COMPONENT_STATUS_PARTIAL_OUTAGE

\* C14 witness: the expectation of the single value 404 has been evaluated
\* on the code 404 and the endpoint is operational.
C14_Witness ==
    \E i \in Urls :
        /\ outcomes[i] = "ok"
        /\ expectations = <<HttpStatus(<<"4", "0", "4">>)>>
        /\ requests[i].status_code = 404
        /\ statuses[i] = COMPONENT_STATUS_OPERATIONAL

\* C15 (reconcile is a pure decision): when if_trigger_update has decided,
\* deciding again on the same statuses gives every endpoint the same push
\* decision.
C15_DecisionRepeatable ==
    [][pc = "if_trigger_update" =>
        LET again == if_trigger_update_loop(1,
                         [current_fails |-> current_fails',
                          trigger_updates |-> trigger_updates',
                          returned |-> FALSE])
        IN  again.trigger_updates = trigger_updates']_vars

\* The mandatory keys a configuration file lacks: top-level keys, and
\* sub-keys of the top-level keys it has.
MissingKeys(d) ==
    {key \in DOMAIN configuration_mandatory_fields : key \notin d.keys} \cup
    {"endpoint." \o sub_key :
        sub_key \in IF "endpoint" \in d.keys
                    THEN configuration_mandatory_fields.endpoint \ d.endpoint
                    ELSE {}} \cup
    {"cachet." \o sub_key :
        sub_key \in IF "cachet" \in d.keys
                    THEN configuration_mandatory_fields.cachet \ d.cachet
                    ELSE {}}

\* C16 (configuration validation): once __init__ has run validate, if a
\* mandatory key is missing the construction has ended with a
\* ConfigurationValidationError that names the missing keys and no polling
\* state exists, and if none is missing validate has raised nothing.
C16_ValidationError ==
    pc # "__init__" /\ error.where # "print_out" =>
        IF MissingKeys(data) # {}
        THEN /\ error.raises = "ConfigurationValidationError"
             /\ error.keys = MissingKeys(data)
             /\ num_urls = 0
        ELSE error.where # "validate"

C18_InitiallyHealthy ==
    [][pc = "__init__" /\ pc' = "evaluate" =>
        \A i \in 1 .. num_urls' :
            /\ current_fails'[i] = 0
            /\ incident_ids'[i] = -1
            /\ ~ trigger_updates'[i]
            /\ statuses'[i] = COMPONENT_STATUS_OPERATIONAL]_vars

\* C18 as amended: when __init__ has created the polling state, every
\* endpoint has a failure counter of 0, no incident, no push decided, an
\* empty message, and the status that the status page reports for its
\* component.
C18_InitiallyAsReported ==
    [][pc = "__init__" /\ pc' = "evaluate" =>
        /\ num_urls' = Len(components)
        /\ \A i \in 1 .. num_urls' :
              /\ current_fails'[i] = 0
              /\ incident_ids'[i] = -1
              /\ ~ trigger_updates'[i]
              /\ messages'[i] = ""
              /\ statuses'[i] = components[i]]_vars

\* C18 witness: __init__ has created the polling state of two endpoints, the
\* first in PARTIAL_OUTAGE and the second OPERATIONAL, with no failure
\* counted, no incident and no push decided.
C18_Witness ==
    /\ pc = "evaluate"
    /\ num_urls = 2
    /\ statuses = <<COMPONENT_STATUS_PARTIAL_OUTAGE, COMPONENT_STATUS_OPERATIONAL>>
    /\ current_fails = <<0, 0>>
    /\ incident_ids = <<-1, -1>>
    /\ trigger_updates = <<FALSE, FALSE>>

\* The persistent state of endpoint i
EndpointState(i) ==
    <<statuses[i], messages[i], current_fails[i], trigger_updates[i],
      incident_ids[i]>>

\* C19 (atomic cycle commit): when evaluate has run and if_trigger_update
\* has not yet decided, a point at which the cycle may be abandoned, the
\* persistent state of every endpoint is what it was at the start of the
\* cycle.
C19_NoMutationBeforeDecision ==
    [][pc = "evaluate" =>
        \A i \in Urls : EndpointState(i)' = EndpointState(i)]_vars

\* The message of endpoint i is empty exactly when its status is OPERATIONAL
Coupled(i) == messages[i] = "" <=> statuses[i] = COMPONENT_STATUS_OPERATIONAL

\* C20 (message/status coupling): in every reachable state, the initial one
\* included, the message of every endpoint is empty if and only if its
\* status is OPERATIONAL.
C20_MessageIffNotOperational == \A i \in Urls : Coupled(i)

\* C20 as amended: every endpoint whose status evaluate has set in this cycle
\* (its request returned and the expectations were evaluated, or its request
\* raised) has an empty message if and only if its status is OPERATIONAL,
\* and an endpoint for which this holds keeps it in every later state; an
\* endpoint that evaluate has not yet processed has the status the status
\* page reported and an empty message.
C20_CoupledOnceEvaluated ==
    [][\A i \in Urls :
          /\ outcomes'[i] \in {"ok"} \cup Exceptions => Coupled(i)'
          /\ Coupled(i) => Coupled(i)']_vars

\* C20 witness: evaluate has run on two endpoints that the status page
\* reported as not operational; the request of the first raised, the second
\* was not processed and still has its reported status and an empty message.
C20_Witness ==
    /\ pc = "if_trigger_update"
    /\ num_urls = 2
    /\ outcomes[1] \in Exceptions
    /\ messages[1] # "" /\ statuses[1] # COMPONENT_STATUS_OPERATIONAL
    /\ outcomes[2] = "unreached"
    /\ messages[2] = "" /\ statuses[2] # COMPONENT_STATUS_OPERATIONAL

\* C21 (STATUS_RANGE well-formedness): every HTTP_STATUS expectation built
\* from a status_range string of the configuration, of the form 'v' or of
\* the form 'a-b', holds a range (min, max) with min < max.
C21_RangeWellFormed ==
    \A k \in 1 .. Len(expectations) :
        expectations[k].type = "HTTP_STATUS" =>
            expectations[k].status_range[1] < expectations[k].status_range[2]

\* The loop of if_trigger_update reaches endpoint i: no earlier endpoint
\* took the return at line 355.
Processed(i) ==
    \A j \in 1 .. (i - 1) :
        ~ (statuses[j] # 1 /\ current_fails[j] + 1 <= allowed_fails)

\* C22 (counter/trigger relation): when if_trigger_update has run, every
\* endpoint its loop processed has either the trigger set and a failure
\* counter of 0, or the trigger cleared and a counter within
\* 1..allowed_fails; and after every step the counter of every endpoint is
\* within 0..allowed_fails.
C22_CounterTriggerRelation ==
    [][/\ pc = "if_trigger_update" /\ pc' = "push_status" =>
              \A i \in Urls :
                  Processed(i) =>
                      \/ trigger_updates'[i] /\ current_fails'[i] = 0
                      \/ /\ ~ trigger_updates'[i]
                         /\ 1 <= current_fails'[i]
                         /\ current_fails'[i] <= allowed_fails
       /\ \A i \in 1 .. Len(current_fails') :
              current_fails'[i] \in 0 .. allowed_fails]_vars

\* C22 witness: if_trigger_update has just run on two endpoints; the first
\* is operational with the trigger set and the counter 0, the second is not
\* operational for the second cycle in a row with the trigger cleared and
\* the counter 2.
C22_Witness ==
    /\ pc = "push_status"
    /\ num_urls = 2
    /\ allowed_fails = 2
    /\ statuses[1] = COMPONENT_STATUS_OPERATIONAL
    /\ trigger_updates[1] /\ current_fails[1] = 0
    /\ statuses[2] # COMPONENT_STATUS_OPERATIONAL
    /\ ~ trigger_updates[2] /\ current_fails[2] = 2

\* C23 (parallel-array alignment): in every reachable state, also after
\* get_monitoring_urls has run again, component_ids, endpoint_version_urls,
\* statuses, messages, requests, current_timestamps, trigger_updates,
\* current_fails, incident_ids and versions all have the length num_urls,
\* and index i of the per-endpoint arrays holds the state of the component
\* component_ids[i].
C23_ArraysAligned ==
    /\ \A length \in {Len(component_ids), Len(endpoint_version_urls),
                      Len(statuses), Len(messages), Len(requests),
                      Len(current_timestamps), Len(trigger_updates),
                      Len(current_fails), Len(incident_ids), Len(versions)} :
           length = num_urls
    /\ \A i \in Urls : array_component_ids[i] = component_ids[i]

\* C24 (evaluation never reports MAJOR_OUTAGE): every status that evaluate
\* writes, in an except clause or from the expectations, is OPERATIONAL,
\* PERFORMANCE_ISSUES or PARTIAL_OUTAGE; and no step gives an endpoint the
\* status MAJOR_OUTAGE: an endpoint that has it had it before the step, so
\* it is the status read from the status page at start-up.
C24_NeverMajorOutage ==
    [][\A i \in Urls :
           /\ pc = "evaluate" /\ outcomes'[i] \in Exceptions \cup {"ok"} =>
                  statuses'[i] \in {COMPONENT_STATUS_OPERATIONAL,
                                    COMPONENT_STATUS_PERFORMANCE_ISSUES,
                                    COMPONENT_STATUS_PARTIAL_OUTAGE}
           /\ statuses'[i] = COMPONENT_STATUS_MAJOR_OUTAGE =>
                  statuses[i] = COMPONENT_STATUS_MAJOR_OUTAGE]_vars

\* C24 witness: evaluate has written the worst status it can give, from a
\* response that fails a latency and a regex expectation: PARTIAL_OUTAGE.
C24_Witness ==
    \E i \in Urls :
        /\ outcomes[i] = "ok"
        /\ Len(expectations) = 2
        /\ expectations[1].type = "LATENCY"
        /\ expectations[2].type = "REGEX"
        /\ requests[i].elapsed = 3
        /\ requests[i].text = <<"K", "O">>
        /\ statuses[i] = COMPONENT_STATUS_PARTIAL_OUTAGE

====
